---- MODULE Spec2Model ----
(***************************************************************************)
(* State-machine model of the speech-to-text client: the App component     *)
(* (Frontend/src/App.tsx) with its four input modes, and the api module it *)
(* calls (lib/api.ts).  Text is a sequence of one-character strings so     *)
(* that joins, appends and prefixes are computed, not assumed.             *)
(***************************************************************************)
EXTENDS Integers, Sequences, FiniteSets, Bags, TLC

\* ------------------------------------------------------------------ bounds
\* Events from outside in one run: invocations of the handlers by the user
\* and messages sent by the remote side of a live channel.  Responses,
\* channel openings and closings follow from these and are not counted.
MaxEvents == 5

\* ------------------------------------------------------------- text values
NULL == "null"
\* currentSessionId === null; session identifiers are 1, 2, ...
NoSession == 0
\* cleanup === null; a cleanup function is the index of its socket
NoCleanup == 0
NL == "\n"
EmptyText == << >>

RECURSIVE Join(_, _)
\* Array.prototype.join: the elements separated by sep; [] joins to ''.
Join(parts, sep) ==
  IF Len(parts) = 0 THEN EmptyText
  ELSE IF Len(parts) = 1 THEN parts[1]
  ELSE parts[1] \o sep \o Join(Tail(parts), sep)

IsPrefix(s, t) == Len(s) <= Len(t) /\ SubSeq(t, 1, Len(s)) = s

\* ------------------------------------------------------- service responses
Segment(t, s, e) == [text |-> t, start |-> s, end |-> e]

\* TranscriptionResult values the service may answer with (segments only:
\* the client reads no other field).
Results ==
  { [segments |-> << >>],
    [segments |-> << Segment(<<"a">>, 0, 1) >>],
    [segments |-> << Segment(<<"b">>, 0, 1), Segment(<<"c">>, 1, 2) >>] }

\* Batch responses: Object.values(results) in key order.
BatchResults ==
  { << >> } \cup { << r >> : r \in Results } \cup
  { << [segments |-> << Segment(<<"a">>, 0, 1) >>],
       [segments |-> << Segment(<<"b">>, 0, 1), Segment(<<"c">>, 1, 2) >>] >> }

\* How a request ends: a success status, a non-success status (the api
\* throws its own Error), or a rejected fetch (network failure).
Outcomes == {"ok", "status", "network"}

\* result.segments.map(segment => segment.text).join('\n')
SegmentsText(result) ==
  Join([i \in 1..Len(result.segments) |-> result.segments[i].text], <<NL>>)

\* Object.values(results).map(...).join('\n\n')
CombinedTranscription(results) ==
  Join([i \in 1..Len(results) |-> SegmentsText(results[i])], <<NL, NL>>)

\* Variant: the catch block stores no message.
ApiErrorMessage_Swallowed(kind, outcome) == NULL

\* The message of the Error a failed api call rejects with.
ApiErrorMessage(kind, outcome) ==
  IF outcome = "network" THEN "Failed to fetch"
  ELSE CASE kind = "file"  -> "Transcription failed"
         [] kind = "batch" -> "Batch transcription failed"
         [] kind = "start" -> "Failed to start recording"
         [] OTHER          -> "Failed to stop recording"

\* ------------------------------------------------------------------- state
VARIABLES
  mounted,            \* the App component is mounted
  fileTranscription, micTranscription, batchTranscription, liveTranscription,
  isRecording, isProcessing, currentSessionId, error,
  inflight,           \* bag of requests awaiting their response
  nextSid,            \* the service's next session identifier
  stoppedSessions,    \* identifiers for which a stop request has completed
  applied,            \* per mode, results written to its buffer so far
  sockets,            \* the WebSockets created so far, in creation order
  settings,           \* modelSize, inputLang, outputLang of the settings row
  events,             \* handler invocations and remote messages so far
  copySuccess,        \* useState(false): the copy buttons read 'Copied!'
  clipboardWrites,    \* bag of navigator.clipboard.writeText calls pending
  clipboard,          \* what the system clipboard holds
  timers,             \* setTimeout callbacks scheduled and not yet run
  downloads           \* the files handed to the browser, oldest first

buffers == << fileTranscription, micTranscription, batchTranscription,
              liveTranscription >>
flags == << isRecording, isProcessing, currentSessionId, error >>
service == << inflight, nextSid, stoppedSessions, applied >>
exports == << copySuccess, clipboardWrites, clipboard, timers, downloads >>
vars == << mounted, buffers, flags, service, sockets, events, settings,
           exports >>

\* getTranscriptionOptions(): the options record built from the settings of
\* the current render.
GetTranscriptionOptions ==
  [ modelSize |-> settings.modelSize, inputLanguage |-> settings.inputLang,
    outputLanguage |-> settings.outputLang, format |-> "txt",
    preprocess |-> TRUE, highPass |-> TRUE, hpCutoff |-> 80, hpOrder |-> 4,
    temperature |-> 0 ]

\* The option fields each api function appends to its FormData; the stop
\* request carries the session identifier only.
FormFields(kind, options) ==
  CASE kind \in {"file", "batch"} ->
         << << "model_size", options.modelSize >>,
            << "input_lang", options.inputLanguage >>,
            << "output_lang", options.outputLanguage >>,
            << "out_format", options.format >> >>
    [] kind = "start" ->
         << << "model_size", options.modelSize >>,
            << "input_lang", options.inputLanguage >>,
            << "output_lang", options.outputLanguage >> >>
    [] OTHER -> << >>

\* A request as built when the api function is called: its body is fixed from
\* then on.
Request(kind, sid) ==
  [kind |-> kind, sid |-> sid, fields |-> FormFields(kind, GetTranscriptionOptions)]

\* The requests of one kind (and session) awaiting their response.
InFlight(kind, sid) ==
  {req \in BagToSet(inflight) : req.kind = kind /\ req.sid = sid}

\* Variant: the request is sent twice.
Issue_Twice(bag, req) == bag (+) SetToBag({req}) (+) SetToBag({req})

Issue(bag, req) == bag (+) SetToBag({req})

Settle(bag, req) == bag (-) SetToBag({req})

Init ==
  /\ mounted = TRUE
  /\ fileTranscription = EmptyText
  /\ micTranscription = EmptyText
  /\ batchTranscription = EmptyText
  /\ liveTranscription = EmptyText
  /\ isRecording = FALSE
  /\ isProcessing = FALSE
  /\ currentSessionId = NoSession
  /\ error = NULL
  /\ inflight = EmptyBag
  /\ nextSid = 1
  /\ stoppedSessions = {}
  /\ applied = [mode \in {"file", "mic", "batch"} |-> 0]
  /\ sockets = << >>
  /\ events = 0
  /\ settings = [modelSize |-> "medium", inputLang |-> "auto",
                 outputLang |-> "en"]
  /\ copySuccess = FALSE
  /\ clipboardWrites = EmptyBag
  /\ clipboard = [written |-> FALSE, text |-> EmptyText]
  /\ timers = 0
  /\ downloads = << >>

\* ------------------------------------------------------- session-id effect
\* useEffect(..., [currentSessionId]): when a render commits a different
\* identifier, or on unmount, the cleanup of the previous effect runs with the
\* identifier it closed over and, if that is set, issues stopRecording for it
\* (its failure only goes to console.error).
\* Variant: the effect returns no cleanup.
EffectCleanup_Never(bag, sid) == bag

EffectCleanup(bag, sid) ==
  IF sid # NoSession THEN Issue(bag, Request("cleanup", sid)) ELSE bag

\* setCurrentSessionId(next) followed by the commit of the new render.
CommitSessionId(bag, next) ==
  IF next # currentSessionId THEN EffectCleanup(bag, currentSessionId) ELSE bag

\* Variant: the new text is appended to the previous one.
SetTranscription_Append(prev, value) == prev \o value

\* A useState setter called with a value: the value replaces the state.
SetTranscription(prev, value) == value

\* ----------------------------------------------------------- 1) file upload
\* What the <input> hands to the handler: no file, or one file.
FileChoices == {NULL, "file"}

\* Variant: the controls are never disabled.
ControlsDisabled_Never == FALSE

\* The upload inputs and the two toggle buttons carry disabled={isProcessing}.
ControlsDisabled == isProcessing

HandleFileUpload ==
  /\ mounted
  /\ ~ControlsDisabled
  /\ events < MaxEvents
  /\ \E file \in FileChoices :
       IF file = NULL
       THEN UNCHANGED vars
       ELSE /\ isProcessing' = TRUE
            /\ error' = NULL
            /\ inflight' = Issue(inflight, Request("file", NoSession))
            /\ events' = events + 1
            /\ UNCHANGED << mounted, settings, exports, buffers, isRecording, currentSessionId,
                            nextSid, stoppedSessions, applied, sockets >>

\* Variant: the flag is cleared at the end of the try, not in a finally.
ProcessingAfterUpload_NoFinally(outcome) == outcome # "ok"

\* The finally of both upload handlers: setIsProcessing(false), whatever the
\* outcome.
ProcessingAfterUpload(outcome) == FALSE

\* The continuation of handleFileUpload after await api.transcribeFile.
FileUploadDone(outcome, result) ==
  /\ \E req \in InFlight("file", NoSession) : inflight' = Settle(inflight, req)
  /\ IF ~mounted
     THEN UNCHANGED << buffers, flags, applied >>
     ELSE /\ IF outcome = "ok"
             THEN /\ fileTranscription' =
                       SetTranscription(fileTranscription, SegmentsText(result))
                  /\ applied' = [applied EXCEPT !["file"] = @ + 1]
                  /\ UNCHANGED error
             ELSE /\ error' = ApiErrorMessage("file", outcome)
                  /\ UNCHANGED << fileTranscription, applied >>
          /\ isProcessing' = ProcessingAfterUpload(outcome)
          /\ UNCHANGED << micTranscription, batchTranscription,
                          liveTranscription, isRecording, currentSessionId >>
  /\ UNCHANGED << mounted, settings, exports, nextSid, stoppedSessions, sockets, events >>

\* ---------------------------------------------------------- 2) batch upload
\* Number of files the <input multiple> hands to the handler.
BatchChoices == {0, 2}

HandleBatchUpload ==
  /\ mounted
  /\ ~ControlsDisabled
  /\ events < MaxEvents
  /\ \E n \in BatchChoices :
       IF n = 0
       THEN UNCHANGED vars
       ELSE /\ isProcessing' = TRUE
            /\ error' = NULL
            /\ inflight' = Issue(inflight, Request("batch", NoSession))
            /\ events' = events + 1
            /\ UNCHANGED << mounted, settings, exports, buffers, isRecording, currentSessionId,
                            nextSid, stoppedSessions, applied, sockets >>

\* Variant: the batch handler calls the file tab's setter.
BatchUploadDone_WritesFile(outcome, results) ==
  /\ \E req \in InFlight("batch", NoSession) : inflight' = Settle(inflight, req)
  /\ IF ~mounted
     THEN UNCHANGED << buffers, flags, applied >>
     ELSE /\ IF outcome = "ok"
             THEN /\ fileTranscription' = CombinedTranscription(results)
                  /\ applied' = [applied EXCEPT !["batch"] = @ + 1]
                  /\ UNCHANGED error
             ELSE /\ error' = ApiErrorMessage("batch", outcome)
                  /\ UNCHANGED << fileTranscription, applied >>
          /\ isProcessing' = ProcessingAfterUpload(outcome)
          /\ UNCHANGED << batchTranscription, micTranscription,
                          liveTranscription, isRecording, currentSessionId >>
  /\ UNCHANGED << mounted, settings, exports, nextSid, stoppedSessions, sockets, events >>

BatchUploadDone(outcome, results) ==
  /\ \E req \in InFlight("batch", NoSession) : inflight' = Settle(inflight, req)
  /\ IF ~mounted
     THEN UNCHANGED << buffers, flags, applied >>
     ELSE /\ IF outcome = "ok"
             THEN /\ batchTranscription' =
                       SetTranscription(batchTranscription,
                                        CombinedTranscription(results))
                  /\ applied' = [applied EXCEPT !["batch"] = @ + 1]
                  /\ UNCHANGED error
             ELSE /\ error' = ApiErrorMessage("batch", outcome)
                  /\ UNCHANGED << batchTranscription, applied >>
          /\ isProcessing' = ProcessingAfterUpload(outcome)
          /\ UNCHANGED << fileTranscription, micTranscription,
                          liveTranscription, isRecording, currentSessionId >>
  /\ UNCHANGED << mounted, settings, exports, nextSid, stoppedSessions, sockets, events >>

\* ------------------------------------------------- 3) microphone start/stop
\* handleRecordToggle up to its first await (or to its end when it awaits
\* nothing).  isRecording and currentSessionId are the values of the render
\* the handler closed over.
HandleRecordToggle ==
  /\ mounted
  /\ ~ControlsDisabled
  /\ events < MaxEvents
  /\ events' = events + 1
  /\ IF isRecording
     THEN IF currentSessionId # NoSession
          THEN /\ inflight' = Issue(inflight, Request("stop", currentSessionId))
               /\ UNCHANGED << isRecording, currentSessionId >>
          ELSE /\ isRecording' = FALSE
               /\ currentSessionId' = NoSession
               /\ UNCHANGED inflight
     ELSE /\ inflight' = Issue(inflight, Request("start", NoSession))
          /\ UNCHANGED << isRecording, currentSessionId >>
  /\ UNCHANGED << mounted, settings, exports, buffers, isProcessing, error, nextSid,
                  stoppedSessions, applied, sockets >>

\* Variant: the catch of the START branch also sets the recording flag.
StartRecordingDone_ActiveOnFailure(outcome) ==
  /\ \E req \in InFlight("start", NoSession) :
       IF outcome = "ok"
       THEN /\ nextSid' = nextSid + 1
            /\ IF mounted
               THEN /\ currentSessionId' = nextSid
                    /\ isRecording' = TRUE
                    /\ error' = NULL
                    /\ inflight' = CommitSessionId(Settle(inflight, req), nextSid)
               ELSE /\ inflight' = Settle(inflight, req)
                    /\ UNCHANGED << isRecording, currentSessionId, error >>
       ELSE /\ inflight' = Settle(inflight, req)
            /\ error' = IF mounted THEN ApiErrorMessage("start", outcome)
                        ELSE error
            /\ isRecording' = (mounted \/ isRecording)
            /\ UNCHANGED << nextSid, currentSessionId >>
  /\ UNCHANGED << mounted, settings, exports, buffers, isProcessing, stoppedSessions,
                  applied, sockets, events >>

\* The continuation of the START branch after await api.startRecording.  On
\* success the service has allocated a fresh session identifier.
StartRecordingDone(outcome) ==
  /\ \E req \in InFlight("start", NoSession) :
       IF outcome = "ok"
       THEN /\ nextSid' = nextSid + 1
            /\ IF mounted
               THEN /\ currentSessionId' = nextSid
                    /\ isRecording' = TRUE
                    /\ error' = NULL
                    /\ inflight' = CommitSessionId(Settle(inflight, req), nextSid)
               ELSE /\ inflight' = Settle(inflight, req)
                    /\ UNCHANGED << isRecording, currentSessionId, error >>
       ELSE /\ inflight' = Settle(inflight, req)
            /\ error' = IF mounted THEN ApiErrorMessage("start", outcome)
                        ELSE error
            /\ UNCHANGED << nextSid, isRecording, currentSessionId >>
  /\ UNCHANGED << mounted, settings, exports, buffers, isProcessing, stoppedSessions,
                  applied, sockets, events >>

\* Variant: the identifier is cleared inside the try, so a failed stop keeps it.
SessionAfterStop_KeepOnFailure(outcome) ==
  IF outcome = "ok" THEN NoSession ELSE currentSessionId

\* The identifier stored once the STOP branch is past its try/catch:
\* setCurrentSessionId(null), whatever the outcome.
SessionAfterStop(outcome) == NoSession

\* The continuation of the STOP branch after await api.stopRecording(sid),
\* sid being the identifier the handler closed over.
StopRecordingDone(sid, outcome, result) ==
  /\ BagIn(Request("stop", sid), inflight)
  /\ stoppedSessions' = stoppedSessions \cup {sid}
  /\ IF ~mounted
     THEN /\ inflight' = Settle(inflight, Request("stop", sid))
          /\ UNCHANGED << buffers, flags, applied >>
     ELSE /\ IF outcome = "ok"
             THEN /\ micTranscription' =
                       SetTranscription(micTranscription, SegmentsText(result))
                  /\ applied' = [applied EXCEPT !["mic"] = @ + 1]
                  /\ UNCHANGED error
             ELSE /\ error' = ApiErrorMessage("stop", outcome)
                  /\ UNCHANGED << micTranscription, applied >>
          /\ isRecording' = FALSE
          /\ currentSessionId' = SessionAfterStop(outcome)
          /\ inflight' = CommitSessionId(
                           Settle(inflight, Request("stop", sid)),
                           SessionAfterStop(outcome))
          /\ UNCHANGED << fileTranscription, batchTranscription,
                          liveTranscription, isProcessing >>
  /\ UNCHANGED << mounted, settings, exports, nextSid, sockets, events >>

\* The stop issued by the effect cleanup settles; a rejection only reaches
\* .catch(console.error), so every outcome leaves the client state alone.
CleanupStopDone(sid, outcome) ==
  /\ BagIn(Request("cleanup", sid), inflight)
  /\ inflight' = Settle(inflight, Request("cleanup", sid))
  /\ stoppedSessions' = stoppedSessions \cup {sid}
  /\ UNCHANGED << mounted, settings, exports, buffers, flags, nextSid, applied, sockets, events >>

\* The component unmounts: the effect cleanup runs one last time.
Unmount ==
  /\ mounted
  /\ mounted' = FALSE
  /\ inflight' = EffectCleanup(inflight, currentSessionId)
  /\ UNCHANGED << settings, exports, buffers, flags, nextSid, stoppedSessions, applied,
                  sockets, events >>

SessionIds == 1..(nextSid - 1)

\* ------------------------------------------------------ 4) live captioning
\* Raw payloads the remote side may send on the channel.
Payloads ==
  { "oops", "null", "{}", "{\"text\":\"\"}", "{\"text\":\"x\"}",
    "{\"text\":\"y\"}" }

\* JSON.parse on those payloads: ok = FALSE is a SyntaxError.
JSONParse(raw) ==
  CASE raw = "null" -> [ok |-> TRUE, type |-> "null", hasText |-> FALSE,
                        text |-> EmptyText]
    [] raw = "{}" -> [ok |-> TRUE, type |-> "object", hasText |-> FALSE,
                      text |-> EmptyText]
    [] raw = "{\"text\":\"\"}" -> [ok |-> TRUE, type |-> "object",
                                   hasText |-> TRUE, text |-> EmptyText]
    [] raw = "{\"text\":\"x\"}" -> [ok |-> TRUE, type |-> "object",
                                    hasText |-> TRUE, text |-> <<"x">>]
    [] raw = "{\"text\":\"y\"}" -> [ok |-> TRUE, type |-> "object",
                                    hasText |-> TRUE, text |-> <<"y">>]
    [] OTHER -> [ok |-> FALSE, type |-> "none", hasText |-> FALSE,
                 text |-> EmptyText]

\* Variant: tests the presence of the field ("text" in data), not its value.
OnMessage_DeliverEmpty(raw) ==
  LET data == JSONParse(raw) IN
  IF ~data.ok THEN << >>
  ELSE IF data.type = "null" THEN << >>
  ELSE IF data.hasText THEN << data.text >>
  ELSE << >>

\* Variant: calls onUpdate(data.text) without testing it, so a missing field
\* is delivered as undefined.
OnMessage_NoTextCheck(raw) ==
  LET data == JSONParse(raw) IN
  IF ~data.ok THEN << >>
  ELSE IF data.type = "null" THEN << >>
  ELSE IF data.hasText /\ data.text # EmptyText THEN << data.text >>
  ELSE IF ~data.hasText THEN << << "undefined" >> >>
  ELSE << >>

\* ws.onmessage: the texts handed to onUpdate for one message event (none or
\* one).  A SyntaxError of JSON.parse and the TypeError of reading .text of
\* null are both caught; a missing or empty text is falsy.
OnMessage(raw) ==
  LET data == JSONParse(raw) IN
  IF ~data.ok THEN << >>
  ELSE IF data.type = "null" THEN << >>
  ELSE IF data.hasText /\ data.text # EmptyText THEN << data.text >>
  ELSE << >>

\* JSON.stringify(options): the fields in insertion order.
JSONStringify(options) ==
  << << "modelSize", options.modelSize >>,
     << "inputLanguage", options.inputLanguage >>,
     << "outputLanguage", options.outputLanguage >>,
     << "format", options.format >>,
     << "preprocess", options.preprocess >>,
     << "highPass", options.highPass >>,
     << "hpCutoff", options.hpCutoff >>,
     << "hpOrder", options.hpOrder >>,
     << "temperature", options.temperature >> >>

\* new WebSocket(wsUrl) with the three handlers installed; options is the
\* argument the handlers close over.
NewSocket(options) ==
  [ readyState |-> "CONNECTING", cancelled |-> FALSE, sent |-> << >>,
    received |-> << >>, delivered |-> << >>, late |-> 0,
    options |-> options ]

\* Variant: onopen builds the options from the settings of the current render.
OpenPayload_Current(sock) == JSONStringify(GetTranscriptionOptions)

\* ws.onopen: ws.send(JSON.stringify(options))
OpenPayload(sock) == JSONStringify(sock.options)

\* api.startLiveCaptioning: creates the socket; its result is the cleanup
\* function for the socket's index.
StartLiveCaptioning(socks, options) == Append(socks, NewSocket(options))

\* WebSocket.close(): a socket that is not yet closing starts to close.
WsClose(sock) ==
  IF sock.readyState \in {"CONNECTING", "OPEN"}
  THEN [sock EXCEPT !.readyState = "CLOSING"]
  ELSE sock

\* Variant: the cleanup function does not close the socket.
Cancel_NoClose(sock) == [sock EXCEPT !.cancelled = TRUE]

\* The cleanup function returned by api.startLiveCaptioning: () => ws.close()
Cancel(sock) == [WsClose(sock) EXCEPT !.cancelled = TRUE]

\* Variant: the fragment is put in front: text + '\n' + prev.
AppendLive_Prepend(prev, text) == text \o <<NL>> \o prev

\* The subscriber App passes: setLiveTranscription(prev => prev + '\n' + text)
AppendLive(prev, text) == prev \o <<NL>> \o text

RECURSIVE AppendAll(_, _)
AppendAll(prev, texts) ==
  IF texts = << >> THEN prev
  ELSE AppendAll(AppendLive(prev, Head(texts)), Tail(texts))

\* handleLiveCaptioning: cleanup is a local of each invocation, null when
\* stop() or start() runs.
HandleLiveCaptioning ==
  /\ mounted
  /\ ~ControlsDisabled
  /\ events < MaxEvents
  /\ events' = events + 1
  /\ LET cleanup == NoCleanup IN
     IF isRecording
     THEN /\ sockets' = IF cleanup # NoCleanup
                        THEN [sockets EXCEPT ![cleanup] = Cancel(@)]
                        ELSE sockets
          /\ isRecording' = FALSE
          /\ UNCHANGED error
     ELSE /\ isRecording' = TRUE
          /\ error' = NULL
          /\ sockets' = StartLiveCaptioning(sockets, GetTranscriptionOptions)
  /\ UNCHANGED << mounted, settings, exports, buffers, isProcessing, currentSessionId, service >>

\* Variant: onopen sends the options twice.
WsOpen_SendsTwice(c) ==
  /\ sockets[c].readyState = "CONNECTING"
  /\ sockets' = [sockets EXCEPT
                   ![c].readyState = "OPEN",
                   ![c].sent = @ \o << JSONStringify(sockets[c].options),
                                       JSONStringify(sockets[c].options) >>]
  /\ UNCHANGED << mounted, settings, exports, buffers, flags, service, events >>

\* ws.onopen
WsOpen(c) ==
  /\ sockets[c].readyState = "CONNECTING"
  /\ sockets' = [sockets EXCEPT ![c].readyState = "OPEN",
                                ![c].sent = Append(@, OpenPayload(sockets[c]))]
  /\ UNCHANGED << mounted, settings, exports, buffers, flags, service, events >>

\* A message of the remote side arrives.  The platform fires the message
\* event only while readyState is OPEN; one arriving after close() is dropped.
WsMessage(c, raw) ==
  /\ events < MaxEvents
  /\ events' = events + 1
  /\ sockets[c].readyState \in {"OPEN", "CLOSING"}
  /\ IF sockets[c].readyState = "OPEN"
     THEN /\ sockets' = [sockets EXCEPT
                           ![c].received = Append(@, raw),
                           ![c].delivered = @ \o OnMessage(raw)]
          /\ liveTranscription' =
               IF mounted THEN AppendAll(liveTranscription, OnMessage(raw))
               ELSE liveTranscription
     ELSE /\ sockets' = [sockets EXCEPT ![c].late = @ + 1]
          /\ UNCHANGED liveTranscription
  /\ UNCHANGED << mounted, settings, exports, fileTranscription, micTranscription,
                  batchTranscription, flags, service >>

\* Variant: the error handler opens a replacement socket.
WsDrop_Reconnect(c) ==
  /\ sockets[c].readyState \in {"CONNECTING", "OPEN"}
  /\ sockets' = Append([sockets EXCEPT ![c].readyState = "CLOSED"],
                       NewSocket(sockets[c].options))
  /\ UNCHANGED << mounted, settings, exports, buffers, flags, service, events >>

\* The connection drops or the remote side closes it: ws.onerror logs, the
\* socket ends CLOSED.
WsDrop(c) ==
  /\ sockets[c].readyState \in {"CONNECTING", "OPEN"}
  /\ sockets' = [sockets EXCEPT ![c].readyState = "CLOSED"]
  /\ UNCHANGED << mounted, settings, exports, buffers, flags, service, events >>

\* The closing handshake started by close() completes.
WsCloseDone(c) ==
  /\ sockets[c].readyState = "CLOSING"
  /\ sockets' = [sockets EXCEPT ![c].readyState = "CLOSED"]
  /\ UNCHANGED << mounted, settings, exports, buffers, flags, service, events >>

Channels == 1..Len(sockets)

\* --------------------------------------------------------- the App program
Next ==
  \/ HandleFileUpload
  \/ \E outcome \in Outcomes, result \in Results :
       FileUploadDone(outcome, result)
  \/ HandleBatchUpload
  \/ \E outcome \in Outcomes, results \in BatchResults :
       BatchUploadDone(outcome, results)
  \/ HandleLiveCaptioning
  \/ HandleRecordToggle
  \/ \E outcome \in Outcomes : StartRecordingDone(outcome)
  \/ \E sid \in SessionIds, outcome \in Outcomes, result \in Results :
       StopRecordingDone(sid, outcome, result)
  \/ \E sid \in SessionIds, outcome \in Outcomes :
       CleanupStopDone(sid, outcome)
  \/ \E c \in Channels : WsOpen(c)
  \/ \E c \in Channels, raw \in Payloads : WsMessage(c, raw)
  \/ \E c \in Channels : WsDrop(c)
  \/ Unmount

Spec == Init /\ [][Next]_vars

\* ------------------------------------- a direct caller of the live api
\* A caller that keeps the cleanup functions api.startLiveCaptioning returns
\* and may call any of them.
ApiStartLiveCaptioning ==
  /\ events < MaxEvents
  /\ events' = events + 1
  /\ sockets' = StartLiveCaptioning(sockets, GetTranscriptionOptions)
  /\ UNCHANGED << mounted, settings, exports, buffers, flags, service >>

ApiCancel(c) ==
  /\ events < MaxEvents
  /\ events' = events + 1
  /\ sockets' = [sockets EXCEPT ![c] = Cancel(@)]
  /\ UNCHANGED << mounted, settings, exports, buffers, flags, service >>

ApiNext ==
  \/ ApiStartLiveCaptioning
  \/ \E c \in Channels : ApiCancel(c)
  \/ \E c \in Channels : WsOpen(c)
  \/ \E c \in Channels, raw \in Payloads : WsMessage(c, raw)
  \/ \E c \in Channels : WsDrop(c)
  \/ \E c \in Channels : WsCloseDone(c)

ApiSpec == Init /\ [][ApiNext]_vars

\* ------------------------------------------- the settings row and the options
\* Values of the three <Select>s the user picks from.
ModelSizeChoices == {"medium", "tiny"}
InputLangChoices == {"auto", "en"}
OutputLangChoices == {"en", "ta"}

\* onValueChange of a <Select>: the state setter of that setting.
SetModelSize(v) ==
  /\ mounted
  /\ events < MaxEvents
  /\ v # settings.modelSize
  /\ settings' = [settings EXCEPT !.modelSize = v]
  /\ events' = events + 1
  /\ UNCHANGED << mounted, exports, buffers, flags, service, sockets >>

SetInputLang(v) ==
  /\ mounted
  /\ events < MaxEvents
  /\ v # settings.inputLang
  /\ settings' = [settings EXCEPT !.inputLang = v]
  /\ events' = events + 1
  /\ UNCHANGED << mounted, exports, buffers, flags, service, sockets >>

SetOutputLang(v) ==
  /\ mounted
  /\ events < MaxEvents
  /\ v # settings.outputLang
  /\ settings' = [settings EXCEPT !.outputLang = v]
  /\ events' = events + 1
  /\ UNCHANGED << mounted, exports, buffers, flags, service, sockets >>

\* The App with its settings row: the operations that take an options
\* snapshot, interleaved with changes of the settings.
OptionsNext ==
  \/ \E v \in ModelSizeChoices : SetModelSize(v)
  \/ \E v \in InputLangChoices : SetInputLang(v)
  \/ \E v \in OutputLangChoices : SetOutputLang(v)
  \/ HandleFileUpload
  \/ \E outcome \in Outcomes, result \in Results :
       FileUploadDone(outcome, result)
  \/ HandleBatchUpload
  \/ \E outcome \in Outcomes, results \in BatchResults :
       BatchUploadDone(outcome, results)
  \/ HandleLiveCaptioning
  \/ HandleRecordToggle
  \/ \E outcome \in Outcomes : StartRecordingDone(outcome)
  \/ \E sid \in SessionIds, outcome \in Outcomes, result \in Results :
       StopRecordingDone(sid, outcome, result)
  \/ \E sid \in SessionIds, outcome \in Outcomes :
       CleanupStopDone(sid, outcome)
  \/ \E c \in Channels : WsOpen(c)

OptionsSpec == Init /\ [][OptionsNext]_vars

\* ------------------------------------------------------ 5) copy and export
\* The four tabs, each with its own copy and download buttons.
Tabs == {"file", "mic", "batch", "live"}

\* The if/else chain both handlers open with: the buffer of the tab, read
\* from the render the handler closed over; any other tab gives ''.
TabText(tab) ==
  CASE tab = "file" -> fileTranscription
    [] tab = "mic" -> micTranscription
    [] tab = "batch" -> batchTranscription
    [] tab = "live" -> liveTranscription
    [] OTHER -> EmptyText

\* Variant: the text written is read from the buffer when the write
\* completes.
WrittenText_Current(write) == TabText(write.tab)

\* The text a pending clipboard write carries: the string writeText was
\* called with.
WrittenText(write) == write.text

\* handleCopyTranscription(tab) up to its await: the text of the tab is read
\* and handed to navigator.clipboard.writeText.  The buttons of a tab are
\* rendered only while its buffer is non-empty and are not disabled while a
\* request is processing.
HandleCopyTranscription(tab) ==
  /\ mounted
  /\ events < MaxEvents
  /\ TabText(tab) # EmptyText
  /\ clipboardWrites' =
       clipboardWrites (+) SetToBag({[tab |-> tab, text |-> TabText(tab)]})
  /\ events' = events + 1
  /\ UNCHANGED << mounted, settings, buffers, flags, service, sockets,
                  copySuccess, clipboard, timers, downloads >>

\* handleCopyTranscription after its await: on success the clipboard holds
\* the text, copySuccess is set and a 2000 ms timer is scheduled; on failure
\* the catch sets the error.  State setters do nothing after unmount.
CopyDone(write, outcome) ==
  /\ BagIn(write, clipboardWrites)
  /\ clipboardWrites' = clipboardWrites (-) SetToBag({write})
  /\ IF outcome = "ok"
       THEN /\ clipboard' = [written |-> TRUE, text |-> WrittenText(write)]
            /\ copySuccess' = IF mounted THEN TRUE ELSE copySuccess
            /\ timers' = timers + 1
            /\ UNCHANGED error
       ELSE /\ error' = IF mounted THEN "Failed to copy to clipboard"
                                   ELSE error
            /\ UNCHANGED << clipboard, copySuccess, timers >>
  /\ UNCHANGED << mounted, settings, buffers, isRecording, isProcessing,
                  currentSessionId, service, sockets, events, downloads >>

\* The setTimeout callback: setCopySuccess(false).
CopyTimeout ==
  /\ timers > 0
  /\ timers' = timers - 1
  /\ copySuccess' = IF mounted THEN FALSE ELSE copySuccess
  /\ UNCHANGED << mounted, settings, buffers, flags, service, sockets, events,
                  clipboardWrites, clipboard, downloads >>

\* handleDownloadTranscription(tab): synchronous; a Blob of type text/plain
\* is built from the text of the tab and handed to the browser through a
\* temporary anchor.  The file name is made from the clock and is left out.
HandleDownloadTranscription(tab) ==
  /\ mounted
  /\ events < MaxEvents
  /\ TabText(tab) # EmptyText
  /\ downloads' = Append(downloads, [tab |-> tab, type |-> "text/plain",
                                     content |-> TabText(tab)])
  /\ events' = events + 1
  /\ UNCHANGED << mounted, settings, buffers, flags, service, sockets,
                  copySuccess, clipboardWrites, clipboard, timers >>

CopyOutcomes == {"ok", "denied"}

\* The application with its copy and download buttons in use, next to the
\* operations that write the buffers.
ExportNext ==
  \/ HandleFileUpload
  \/ \E outcome \in Outcomes, result \in Results :
       FileUploadDone(outcome, result)
  \/ HandleBatchUpload
  \/ \E outcome \in Outcomes, results \in BatchResults :
       BatchUploadDone(outcome, results)
  \/ HandleLiveCaptioning
  \/ HandleRecordToggle
  \/ \E outcome \in Outcomes : StartRecordingDone(outcome)
  \/ \E sid \in SessionIds, outcome \in Outcomes, result \in Results :
       StopRecordingDone(sid, outcome, result)
  \/ \E c \in Channels : WsOpen(c)
  \/ \E c \in Channels, raw \in Payloads : WsMessage(c, raw)
  \/ \E tab \in Tabs : HandleCopyTranscription(tab)
  \/ \E write \in BagToSet(clipboardWrites), outcome \in CopyOutcomes :
       CopyDone(write, outcome)
  \/ CopyTimeout
  \/ \E tab \in Tabs : HandleDownloadTranscription(tab)
  \/ Unmount

ExportSpec == Init /\ [][ExportNext]_vars

\* ------------------------------------------- recording until the context ends
\* The microphone tab and the toggle that shares its flag, in a context that
\* ends at some point.  Every request gets its response (fetch settles) and
\* the component is unmounted in the end; nothing obliges the user to click.
RecordNext ==
  \/ HandleLiveCaptioning
  \/ HandleRecordToggle
  \/ \E outcome \in Outcomes : StartRecordingDone(outcome)
  \/ \E sid \in SessionIds, outcome \in Outcomes, result \in Results :
       StopRecordingDone(sid, outcome, result)
  \/ \E sid \in SessionIds, outcome \in Outcomes :
       CleanupStopDone(sid, outcome)
  \/ Unmount

RecordFairness ==
  /\ WF_vars(\E outcome \in Outcomes : StartRecordingDone(outcome))
  /\ WF_vars(\E sid \in 1..MaxEvents, outcome \in Outcomes, result \in Results :
               StopRecordingDone(sid, outcome, result))
  /\ WF_vars(\E sid \in 1..MaxEvents, outcome \in Outcomes :
               CleanupStopDone(sid, outcome))
  /\ WF_vars(Unmount)

RecordSpec == Init /\ [][RecordNext]_vars /\ RecordFairness

\* --------------------------------------------- uploads that get a response
\* The two upload tabs, with every upload request getting its response,
\* successful or not.
UploadNext ==
  \/ HandleFileUpload
  \/ \E outcome \in Outcomes, result \in Results :
       FileUploadDone(outcome, result)
  \/ HandleBatchUpload
  \/ \E outcome \in Outcomes, results \in BatchResults :
       BatchUploadDone(outcome, results)
  \/ Unmount

UploadFairness ==
  /\ WF_vars(\E outcome \in Outcomes, result \in Results :
               FileUploadDone(outcome, result))
  /\ WF_vars(\E outcome \in Outcomes, results \in BatchResults :
               BatchUploadDone(outcome, results))

UploadSpec == Init /\ [][UploadNext]_vars /\ UploadFairness

\* =================================================================== claims
StartRequest == Request("start", NoSession)

\* Sessions the service has started for this client and for which no stop
\* request has completed yet.
OutstandingSessions == SessionIds \ stoppedSessions

\* C1: in every reachable state the client has at most one recording session
\* that has been started and not yet stopped.
C1_AtMostOneSession == Cardinality(OutstandingSessions) <= 1

\* C2: a start invoked while a session is Active or Finalizing (an identifier
\* is stored) issues no start request to the service.
C2_NoStartWhileActive ==
  [][currentSessionId # NoSession =>
       CopiesIn(StartRequest, inflight') <= CopiesIn(StartRequest, inflight)]_vars

OpenChannels == {c \in Channels : sockets[c].readyState = "OPEN"}

\* C3: at most one live-caption channel is open per client instance at any
\* time.
C3_AtMostOneOpenChannel == Cardinality(OpenChannels) <= 1

Idle == ~isRecording /\ currentSessionId = NoSession

\* A stop request awaited by handleRecordToggle for sid settles in this step.
ToggleStopSettles(sid) ==
  CopiesIn(Request("stop", sid), inflight') <
    CopiesIn(Request("stop", sid), inflight)

\* C4: when the stop request awaited by the record toggle completes, with
\* success or failure, the mounted client is Idle (identifier cleared,
\* recording flag false), and a record toggle invoked on an Idle client issues
\* a start request.
C4_StopCompletionIdle ==
  [][ /\ \A sid \in SessionIds :
           (mounted /\ ToggleStopSettles(sid)) =>
             (currentSessionId' = NoSession /\ isRecording' = FALSE)
      /\ (HandleRecordToggle /\ Idle) =>
           CopiesIn(StartRequest, inflight') =
             CopiesIn(StartRequest, inflight) + 1 ]_vars

\* A stop has failed, the client is Idle, and the next toggle has issued a
\* start request.
C4_Witness ==
  /\ mounted
  /\ Idle
  /\ stoppedSessions # {}
  /\ error = "Failed to stop recording"
  /\ BagIn(StartRequest, inflight)

\* C5: after cancel() has been called on a live-caption channel the
\* subscriber callback is never invoked again for that channel.
C5_NoDeliveryAfterCancel ==
  [][\A c \in Channels :
       sockets[c].cancelled => sockets'[c].delivered = sockets[c].delivered]_vars

\* A cancelled channel that had delivered fragments and on which a message
\* arrived after the cancel.
C5_Witness ==
  \E c \in Channels :
    /\ sockets[c].cancelled
    /\ sockets[c].delivered # << >>
    /\ sockets[c].late > 0

\* The messages of the protocol that carry a non-empty text, and that text.
FragmentText(raw) ==
  CASE raw = "{\"text\":\"x\"}" -> << <<"x">> >>
    [] raw = "{\"text\":\"y\"}" -> << <<"y">> >>
    [] OTHER -> << >>

RECURSIVE Fragments(_)
Fragments(msgs) ==
  IF msgs = << >> THEN << >>
  ELSE FragmentText(Head(msgs)) \o Fragments(Tail(msgs))

\* C6: on every live channel the fragments delivered to the subscriber are
\* exactly the received messages that carry a non-empty text, in arrival
\* order.
C6_DeliveredInOrder ==
  \A c \in Channels : sockets[c].delivered = Fragments(sockets[c].received)

\* The three messages x, empty, y were received and x, y were delivered.
C6_Witness ==
  \E c \in Channels :
    /\ sockets[c].received =
         << "{\"text\":\"x\"}", "{\"text\":\"\"}", "{\"text\":\"y\"}" >>
    /\ sockets[c].delivered = << <<"x">>, <<"y">> >>

\* Non-JSON payloads and JSON values without a text field.
Malformed == {"oops", "null", "{}"}

MessageEvent(c, raw) ==
  sockets'[c].received = Append(sockets[c].received, raw)

HasMalformed(msgs) == \E i \in 1..Len(msgs) : msgs[i] \in Malformed

\* C7: a malformed message on the live channel is discarded (live buffer
\* unchanged, nothing delivered, channel still open), and a fragment received
\* after one is still delivered.
C7_MalformedDiscarded ==
  [][\A c \in Channels :
       /\ \A raw \in Malformed :
            MessageEvent(c, raw) =>
              /\ liveTranscription' = liveTranscription
              /\ sockets'[c].delivered = sockets[c].delivered
              /\ sockets'[c].readyState = "OPEN"
       /\ \A raw \in Payloads :
            (MessageEvent(c, raw) /\ HasMalformed(sockets[c].received)
               /\ FragmentText(raw) # << >>) =>
              sockets'[c].delivered = sockets[c].delivered \o FragmentText(raw)
    ]_vars

\* After a non-JSON message and a message without text, a fragment was
\* delivered on the still open channel.
C7_Witness ==
  \E c \in Channels :
    /\ sockets[c].received = << "oops", "{}", "{\"text\":\"x\"}" >>
    /\ sockets[c].delivered = << <<"x">> >>
    /\ sockets[c].readyState = "OPEN"
    /\ liveTranscription = << NL, "x" >>

CleanupStop(sid) == Request("cleanup", sid)

\* C8: when the component unmounts while a session identifier is stored, a
\* stop request carrying that identifier is issued, and the completion of
\* such a request (its failure included) leaves the error state unchanged.
C8_TeardownStop ==
  [][ /\ (mounted /\ ~mounted' /\ currentSessionId # NoSession) =>
           CopiesIn(CleanupStop(currentSessionId), inflight') =
             CopiesIn(CleanupStop(currentSessionId), inflight) + 1
      /\ \A sid \in SessionIds :
           CopiesIn(CleanupStop(sid), inflight') <
             CopiesIn(CleanupStop(sid), inflight) => error' = error ]_vars

\* The component has unmounted with a session stored and the stop for it is
\* in flight.
C8_Witness ==
  /\ ~mounted
  /\ currentSessionId # NoSession
  /\ BagIn(CleanupStop(currentSessionId), inflight)

\* The text a result is expected to leave in the buffer of its mode.
ExpectedText(result) ==
  CASE Len(result.segments) = 0 -> << >>
    [] Len(result.segments) = 1 -> result.segments[1].text
    [] OTHER -> result.segments[1].text \o <<NL>> \o result.segments[2].text

\* C9: in the file, mic and batch modes a completed result replaces the
\* buffer of its mode: afterwards the buffer is that result's joined text,
\* with nothing of the earlier content left.
C9_ResultReplacesBuffer ==
  [][ /\ \A r \in Results :
           /\ (mounted /\ FileUploadDone("ok", r)) =>
                fileTranscription' = ExpectedText(r)
           /\ \A sid \in SessionIds :
                (mounted /\ StopRecordingDone(sid, "ok", r)) =>
                  micTranscription' = ExpectedText(r)
           /\ (mounted /\ BatchUploadDone("ok", << r >>)) =>
                batchTranscription' = ExpectedText(r)
      /\ \A r1, r2 \in Results :
           (mounted /\ BatchUploadDone("ok", << r1, r2 >>)) =>
             batchTranscription' =
               ExpectedText(r1) \o <<NL, NL>> \o ExpectedText(r2) ]_vars

\* Two results have been written to the file buffer and two to the mic
\* buffer; each buffer holds one result's text.
C9_Witness ==
  /\ applied["file"] = 2
  /\ fileTranscription = << "b", NL, "c" >>
  /\ applied["mic"] = 2
  /\ micTranscription = << "a" >>

\* C10: the live buffer is append-only: every step leaves the earlier value a
\* prefix of the later one, and a fragment delivered to the mounted client
\* extends the buffer by a line break followed by the fragment.
C10_LiveAppendOnly ==
  [][ /\ IsPrefix(liveTranscription, liveTranscription')
      /\ \A c \in Channels :
           (mounted /\ Len(sockets'[c].delivered) = Len(sockets[c].delivered) + 1)
             => liveTranscription' =
                  liveTranscription \o <<NL>>
                    \o sockets'[c].delivered[Len(sockets'[c].delivered)] ]_vars

\* Fragments x then y were delivered and the buffer holds them in that order,
\* each after a line break.
C10_Witness ==
  /\ liveTranscription = << NL, "x", NL, "y" >>
  /\ \E c \in Channels : sockets[c].delivered = << <<"x">>, <<"y">> >>

Settles(req) == CopiesIn(req, inflight') < CopiesIn(req, inflight)

FileRequest == Request("file", NoSession)
BatchRequest == Request("batch", NoSession)

\* C11: the four transcript buffers are independent: the completion of a
\* file upload, a batch upload or a session stop, and a live message event,
\* leave the buffers of the other three modes unchanged.
C11_BuffersIndependent ==
  [][ /\ Settles(FileRequest) =>
           UNCHANGED << micTranscription, batchTranscription, liveTranscription >>
      /\ Settles(BatchRequest) =>
           UNCHANGED << fileTranscription, micTranscription, liveTranscription >>
      /\ \A sid \in SessionIds :
           Settles(Request("stop", sid)) =>
             UNCHANGED << fileTranscription, batchTranscription,
                          liveTranscription >>
      /\ \A c \in Channels :
           Len(sockets'[c].received) > Len(sockets[c].received) =>
             UNCHANGED << fileTranscription, micTranscription,
                          batchTranscription >> ]_vars

\* Results were written to the file, batch and live buffers, and each holds
\* its own text.
C11_Witness ==
  /\ mounted
  /\ fileTranscription = << "a" >>
  /\ batchTranscription = << "a", NL, NL, "b", NL, "c" >>
  /\ liveTranscription = << NL, "x" >>

Failures == {"status", "network"}

\* C12: whenever a file upload, batch upload, session start or session stop
\* awaited by a handler of the mounted client fails, the error state becomes a
\* message and the transcript buffer of that mode is left unchanged.
C12_FailureSurfaced ==
  [][\A o \in Failures :
       /\ \A r \in Results :
            (mounted /\ FileUploadDone(o, r)) =>
              (error' # NULL /\ fileTranscription' = fileTranscription)
       /\ \A rs \in BatchResults :
            (mounted /\ BatchUploadDone(o, rs)) =>
              (error' # NULL /\ batchTranscription' = batchTranscription)
       /\ (mounted /\ StartRecordingDone(o)) =>
            (error' # NULL /\ micTranscription' = micTranscription)
       /\ \A sid \in SessionIds, r \in Results :
            (mounted /\ StopRecordingDone(sid, o, r)) =>
              (error' # NULL /\ micTranscription' = micTranscription) ]_vars

\* A file upload failed after an earlier one succeeded: the message is shown
\* and the earlier text is still in the buffer.
C12_Witness ==
  /\ mounted
  /\ error = "Transcription failed"
  /\ fileTranscription = << "a" >>
  /\ ~isProcessing

\* C16: a new live channel is created only by a start action of the caller
\* (a live-caption toggle taken while the recording flag is false), never by
\* an error or a close of an existing channel.
C16_NoAutomaticReopen ==
  [][Len(sockets') # Len(sockets) =>
       /\ Len(sockets') = Len(sockets) + 1
       /\ events' = events + 1
       /\ ~isRecording /\ isRecording'
       /\ \A c \in Channels : sockets'[c] = sockets[c] ]_vars

\* The only channel was dropped after it had delivered a message, and no
\* other channel exists.
C16_Witness ==
  /\ Len(sockets) = 1
  /\ sockets[1].readyState = "CLOSED"
  /\ sockets[1].received # << >>
  /\ isRecording

\* C18: when live captioning is toggled off (handleLiveCaptioning invoked
\* with the recording flag true, after a live start), the channel opened by
\* that start is closed.
C18_ToggleOffClosesChannel ==
  [][(HandleLiveCaptioning /\ isRecording /\ sockets # << >>) =>
       sockets'[Len(sockets)].readyState \in {"CLOSING", "CLOSED"}]_vars

HeldChannels ==
  {c \in Channels : sockets[c].readyState \in {"CONNECTING", "OPEN"}}

NeverDropped == \A c \in Channels : sockets[c].readyState # "CLOSED"

\* C20: the shared recording flag agrees with the resources held: as long as
\* no channel has been dropped by the remote side, the flag is true exactly
\* when a session identifier is stored or a live channel is held.
C20_FlagAgreesWithResources ==
  NeverDropped =>
    (isRecording <=> (currentSessionId # NoSession \/ HeldChannels # {}))

UploadRequests == {FileRequest, BatchRequest}

\* C13: each invocation of submit-file or submit-batch issues exactly one
\* outbound request, and no upload request is issued by any other step: after
\* a failure nothing is sent until the user invokes the operation again.
C13_OneRequestNoRetry ==
  [][\A req \in UploadRequests :
       /\ CopiesIn(req, inflight') # CopiesIn(req, inflight) =>
            \/ /\ CopiesIn(req, inflight') = CopiesIn(req, inflight) + 1
               /\ events' = events + 1
               /\ ~isProcessing /\ isProcessing'
            \/ CopiesIn(req, inflight') = CopiesIn(req, inflight) - 1
       /\ Settles(req) =>
            \A other \in UploadRequests :
              CopiesIn(other, inflight') <= CopiesIn(other, inflight) ]_vars

\* A file upload has failed and nothing is in flight: no retry was sent.
C13_Witness ==
  /\ mounted
  /\ error = "Transcription failed"
  /\ ~isProcessing
  /\ inflight = EmptyBag

StopsInFlight(sid) ==
  CopiesIn(Request("stop", sid), inflight) + CopiesIn(CleanupStop(sid), inflight)

StopIssued(sid) ==
  \/ CopiesIn(Request("stop", sid), inflight') >
       CopiesIn(Request("stop", sid), inflight)
  \/ CopiesIn(CleanupStop(sid), inflight') >
       CopiesIn(CleanupStop(sid), inflight)

\* C19: for every session identifier the client issues at most one stop
\* request: none is issued for an identifier that already has a stop request
\* in flight or completed.
C19_AtMostOneStop ==
  [][\A sid \in SessionIds :
       StopIssued(sid) => (StopsInFlight(sid) = 0 /\ sid \notin stoppedSessions)
    ]_vars

\* The message a channel is expected to send for the options it was started
\* with.
ExpectedSnapshot(options) ==
  << << "modelSize", options.modelSize >>,
     << "inputLanguage", options.inputLanguage >>,
     << "outputLanguage", options.outputLanguage >>,
     << "format", "txt" >>, << "preprocess", TRUE >>, << "highPass", TRUE >>,
     << "hpCutoff", 80 >>, << "hpOrder", 4 >>, << "temperature", 0 >> >>

\* C15: on each live channel the options snapshot is sent exactly once, when
\* the channel opens, as the first outbound message, and nothing else is ever
\* sent on it.
C15_OptionsSentOnce ==
  \A c \in Channels :
    /\ Len(sockets[c].sent) <= 1
    /\ sockets[c].readyState = "CONNECTING" => sockets[c].sent = << >>
    /\ (sockets[c].readyState = "OPEN" \/ sockets[c].received # << >>) =>
         sockets[c].sent = << ExpectedSnapshot(sockets[c].options) >>

\* An open channel has sent its snapshot and has since received two messages.
C15_Witness ==
  \E c \in Channels :
    /\ sockets[c].readyState = "OPEN"
    /\ Len(sockets[c].sent) = 1
    /\ Len(sockets[c].received) = 2

\* The options a handler invoked in the current state is expected to use.
ExpectedOptions ==
  [ modelSize |-> settings.modelSize, inputLanguage |-> settings.inputLang,
    outputLanguage |-> settings.outputLang, format |-> "txt",
    preprocess |-> TRUE, highPass |-> TRUE, hpCutoff |-> 80, hpOrder |-> 4,
    temperature |-> 0 ]

ExpectedFields(kind) ==
  << << "model_size", settings.modelSize >>,
     << "input_lang", settings.inputLang >>,
     << "output_lang", settings.outputLang >> >>
  \o (IF kind = "start" THEN << >> ELSE << << "out_format", "txt" >> >>)

OptionKinds == {"file", "batch", "start"}

\* C17: the options an operation uses are the settings as they were when it
\* was invoked: a request carries the settings of the state it was issued in,
\* a live channel keeps the options it was started with and sends those on
\* open, and a change of a setting alters no request in flight and no channel.
C17_OptionsAtInvocation ==
  [][ /\ \A req \in BagToSet(inflight') :
           (req.kind \in OptionKinds
              /\ CopiesIn(req, inflight') > CopiesIn(req, inflight)) =>
             req.fields = ExpectedFields(req.kind)
      /\ Len(sockets') > Len(sockets) =>
           sockets'[Len(sockets')].options = ExpectedOptions
      /\ \A c \in Channels :
           /\ sockets'[c].options = sockets[c].options
           /\ Len(sockets'[c].sent) > Len(sockets[c].sent) =>
                sockets'[c].sent = << ExpectedSnapshot(sockets[c].options) >>
      /\ settings' # settings => (inflight' = inflight /\ sockets' = sockets)
    ]_vars

\* The model size was changed after a channel was started and a file upload
\* was issued: the channel has sent, and the request carries, the earlier one.
C17_Witness ==
  /\ settings.modelSize = "tiny"
  /\ \E c \in Channels :
       /\ sockets[c].readyState = "OPEN"
       /\ sockets[c].sent[1][1] = << "modelSize", "medium" >>
  /\ \E req \in BagToSet(inflight) :
       req.kind = "file" /\ req.fields[1] = << "model_size", "medium" >>

\* A clipboard write is handed to the platform in this step.
CopyCalled(write) ==
  CopiesIn(write, clipboardWrites') > CopiesIn(write, clipboardWrites)

\* A clipboard write completes in this step.
CopyCompleted(write) ==
  CopiesIn(write, clipboardWrites') < CopiesIn(write, clipboardWrites)

\* The step is one of a copy or of a download: a call, a completion or the
\* timer that resets the button.
ExportStep == exports' # exports

\* C14: copying and downloading never change a transcript buffer, and the
\* content exported is the text the buffer of the selected tab held when the
\* handler was called, whatever is written to the buffer afterwards: a write
\* handed to the clipboard carries that text and puts exactly it on the
\* clipboard when it completes, a downloaded file holds it, and files already
\* downloaded stay as they are.
C14_ExportIsSnapshot ==
  [][ /\ ExportStep => buffers' = buffers
      /\ \A write \in BagToSet(clipboardWrites') :
           CopyCalled(write) => write.text = TabText(write.tab)
      /\ clipboard' # clipboard =>
           \E write \in BagToSet(clipboardWrites) :
             /\ CopyCompleted(write)
             /\ clipboard' = [written |-> TRUE, text |-> write.text]
      /\ Len(downloads') >= Len(downloads)
      /\ SubSeq(downloads', 1, Len(downloads)) = downloads
      /\ Len(downloads') > Len(downloads) =>
           /\ Len(downloads') = Len(downloads) + 1
           /\ downloads'[Len(downloads')].content =
                TabText(downloads'[Len(downloads')].tab)
    ]_vars

\* A text was copied to the clipboard, copied again and downloaded, and the
\* buffer was written while the second copy was still pending: the pending
\* write and the file hold the earlier text.
C14_Witness ==
  /\ clipboard.written
  /\ \E write \in BagToSet(clipboardWrites) :
       write.text # TabText(write.tab)
  /\ \E i \in 1..Len(downloads) :
       downloads[i].content # TabText(downloads[i].tab)

\* A stop request carrying the identifier has been sent: it is in flight or
\* has had its response.
StopCarried(sid) ==
  \/ sid \in stoppedSessions
  \/ InFlight("stop", sid) # {}
  \/ InFlight("cleanup", sid) # {}

\* C21: every session identifier the service returned to a start request is
\* eventually carried by a stop request, also when a second start is issued
\* while the first is in flight and when the context ends before the start
\* response arrives.
C21_EverySessionStopped ==
  \A sid \in 1..MaxEvents : (sid \in SessionIds) ~> StopCarried(sid)

\* The file and batch upload requests awaiting their response.
UploadsInFlight == InFlight("file", NoSession) \cup InFlight("batch", NoSession)

\* C22: the processing flag is true whenever at least one file or batch
\* upload request is in flight, whichever of the two kinds it is and whatever
\* completed before it.
C22_ProcessingWhileUploading == UploadsInFlight # {} => isProcessing

\* A file upload is in flight after a batch upload has completed with a
\* result.
C22_Witness ==
  /\ InFlight("file", NoSession) # {}
  /\ applied["batch"] = 1
  /\ isProcessing

\* Stop requests, of the toggle or of the effect cleanup, in flight.
StopRequests == {req \in BagToSet(inflight) : req.kind \in {"stop", "cleanup"}}

\* C23: a failed start request leaves the client as it was: the stored
\* session identifier, the recording flag and the mic buffer are unchanged, so
\* an Idle client stays Idle; and a record toggle of an Idle client issues one
\* new start request and no stop.
C23_FailedStartStaysIdle ==
  [][ /\ \A o \in Failures :
           StartRecordingDone(o) =>
             /\ currentSessionId' = currentSessionId
             /\ isRecording' = isRecording
             /\ micTranscription' = micTranscription
             /\ Idle => Idle'
      /\ (Idle /\ HandleRecordToggle) =>
           /\ CopiesIn(StartRequest, inflight') =
                CopiesIn(StartRequest, inflight) + 1
           /\ \A req \in StopRequests \cup {r \in BagToSet(inflight') :
                                              r.kind \in {"stop", "cleanup"}} :
                CopiesIn(req, inflight') = CopiesIn(req, inflight)
           /\ Idle'
    ]_vars

\* A start request failed, the client is Idle, no session was ever allocated
\* and a start request is in flight again.
C23_Witness ==
  /\ mounted
  /\ error = "Failed to start recording"
  /\ Idle
  /\ nextSid = 1
  /\ micTranscription = EmptyText
  /\ InFlight("start", NoSession) # {}

\* C24: given that every upload request gets a response, the processing flag
\* of the mounted client always returns to false after a file or batch
\* upload: the client does not stay in the processing state.
C24_ProcessingEnds == (mounted /\ isProcessing) ~> (~isProcessing \/ ~mounted)

\* A batch upload has completed with a result and a file upload has failed
\* since: nothing is in flight and the flag is false.
C24_Witness ==
  /\ mounted
  /\ applied["batch"] = 1
  /\ error = "Transcription failed"
  /\ UploadsInFlight = {}
  /\ ~isProcessing

====
